---- MODULE Spec2Model ----
(***************************************************************************)
(* A model of the Kaguya Music Mood API (src/backend.py): the request      *)
(* handlers of the playlist manager, the catalog search, the fallback URL  *)
(* builder and the /ws/video-mood streaming handler.                       *)
(*                                                                         *)
(* Python values are rendered as follows.  A str is a tuple of one-        *)
(* character strings where its characters matter (playlist names, track    *)
(* names, URLs) and a TLA+ string where only its identity matters (mood    *)
(* labels, ids).  None is the value None below where it stands for a str,  *)
(* and a record of kind "none" where it stands for a URL.  A handler that  *)
(* has no await in its body runs to completion on the event loop and is    *)
(* one action; the outcomes of the external calls it makes (Spotify, the   *)
(* detector, the classifier) are inputs of the action.                     *)
(***************************************************************************)
EXTENDS Integers, Sequences, FiniteSets, TLC

----------------------------------------------------------------------------
(* Bounds of the model *)

\* playlists Spotify creates for the service in one behaviour
MaxPlaylists == 2
\* largest limit tried on the catalog search (0 is tried too)
MaxLimit == 2
\* longest catalog response tried on the catalog search
MaxItems == 3
\* longest track list tried on the fallback URL builder
MaxTracks == 2
\* messages a client sends on one streaming connection
MaxFrames == 2
\* playlist requests in flight at once
MaxRequests == 2

----------------------------------------------------------------------------
(* Python values *)

None == "None"

NoUrl == [kind |-> "none"]

\* playlist['external_urls']['spotify'] of the playlist with this id
PlaylistUrl(id) == [kind |-> "playlist", id |-> id]

UpperChars == <<"A","B","C","D","E","F","G","H","I","J","K","L","M",
                "N","O","P","Q","R","S","T","U","V","W","X","Y","Z">>

LowerChars == <<"a","b","c","d","e","f","g","h","i","j","k","l","m",
                "n","o","p","q","r","s","t","u","v","w","x","y","z">>

\* str.lower() on one character
LowerChar(c) ==
    IF \E i \in DOMAIN UpperChars : UpperChars[i] = c
    THEN LowerChars[CHOOSE i \in DOMAIN UpperChars : UpperChars[i] = c]
    ELSE c

\* str.lower()
Lower(s) == [i \in DOMAIN s |-> LowerChar(s[i])]

\* str.startswith(prefix)
StartsWith(s, prefix) ==
    /\ Len(s) >= Len(prefix)
    /\ SubSeq(s, 1, Len(prefix)) = prefix

----------------------------------------------------------------------------
(* Module-level data of backend.py *)

MOOD_LABELS ==
    [i \in 0..6 |->
        CASE i = 0 -> "Angry"
          [] i = 1 -> "Disgust"
          [] i = 2 -> "Fear"
          [] i = 3 -> "Happy"
          [] i = 4 -> "Sad"
          [] i = 5 -> "Surprise"
          [] i = 6 -> "Neutral"]

\* MOOD_LABELS.values()
MoodValues == {MOOD_LABELS[i] : i \in DOMAIN MOOD_LABELS}

\* the characters of a mood label
MoodChars(mood) ==
    CASE mood = "Angry"    -> <<"A","n","g","r","y">>
      [] mood = "Disgust"  -> <<"D","i","s","g","u","s","t">>
      [] mood = "Fear"     -> <<"F","e","a","r">>
      [] mood = "Happy"    -> <<"H","a","p","p","y">>
      [] mood = "Sad"      -> <<"S","a","d">>
      [] mood = "Surprise" -> <<"S","u","r","p","r","i","s","e">>
      [] mood = "Neutral"  -> <<"N","e","u","t","r","a","l">>
      [] mood = "Unknown"  -> <<"U","n","k","n","o","w","n">>
      [] mood = "happy"    -> <<"h","a","p","p","y">>
      [] mood = "InvalidMood" ->
             <<"I","n","v","a","l","i","d","M","o","o","d">>

----------------------------------------------------------------------------
(* Tracks *)

\* the artist name given to a track without artists
UnknownArtist ==
    <<"U","n","k","n","o","w","n"," ","A","r","t","i","s","t">>

\* a falsy element of results['tracks']['items'] (None or {})
EmptyItem == [item |-> FALSE, id |-> None, name |-> <<>>, artists |-> <<>>]

\* a track object of the catalog: its id (None for a local track), its name
\* (<<>> is the empty string) and the names of its artists
TrackItem(id, name, artists) ==
    [item |-> TRUE, id |-> id, name |-> name, artists |-> artists]

\* the projection of a catalog track into the Track shape (the fields the
\* playlist code reads)
track_info(track) ==
    [id     |-> track.id,
     name   |-> track.name,
     artist |-> IF track.artists # <<>> THEN track.artists[1] ELSE UnknownArtist]


\* the `len(tracks) >= limit` test that ends the loop
EnoughTracks(tracks, limit) == Len(tracks) >= limit

\* the for loop of search_spotify_by_mood from item i on
RECURSIVE search_loop(_, _, _, _, _)
search_loop(items, i, tracks, seen_track_ids, limit) ==
    IF i > Len(items) THEN tracks
    ELSE LET track == items[i] IN
         IF ~track.item
         THEN search_loop(items, i + 1, tracks, seen_track_ids, limit)
         ELSE IF track.id \in seen_track_ids
         THEN search_loop(items, i + 1, tracks, seen_track_ids, limit)
         ELSE LET tracks2 == Append(tracks, track_info(track)) IN
              IF EnoughTracks(tracks2, limit)
              THEN tracks2
              ELSE search_loop(items, i + 1, tracks2,
                               seen_track_ids \cup {track.id}, limit)

\* what spotify_client.search does: it raises, or answers with
\* results['tracks']['items'] = items
SearchRaises == [ok |-> FALSE, items |-> <<>>]

SearchAnswers(items) == [ok |-> TRUE, items |-> items]

\* search_spotify_by_mood(mood, limit) with the global spotify_client present
\* or not (client) and spotify_client.search doing found
search_spotify_by_mood(client, found, limit) ==
    IF ~client THEN <<>>
    ELSE IF ~found.ok THEN <<>>
    ELSE search_loop(found.items, 1, <<>>, {}, limit)

----------------------------------------------------------------------------
(* The fallback URL builder *)

\* urllib.parse.quote on one character of the alphabet of the model:
\* letters and "/" are kept, a space and "&" are percent-encoded
QuoteChar(c) ==
    CASE c = " " -> <<"%","2","0">>
      [] c = "&" -> <<"%","2","6">>
      [] OTHER   -> <<c>>

\* urllib.parse.quote
RECURSIVE Quote(_)
Quote(s) == IF s = <<>> THEN <<>> ELSE QuoteChar(Head(s)) \o Quote(Tail(s))

\* " ".join(names)
RECURSIVE JoinSpace(_)
JoinSpace(names) ==
    IF names = <<>> THEN <<>>
    ELSE IF Len(names) = 1 THEN names[1]
    ELSE names[1] \o <<" ">> \o JoinSpace(Tail(names))

\* tracks[:n]
FirstN(tracks, n) == SubSeq(tracks, 1, IF Len(tracks) < n THEN Len(tracks) ELSE n)

\* [f"{name} {artist}" for track in tracks[:5] if name and artist]
RECURSIVE track_names(_)
track_names(tracks) ==
    IF tracks = <<>> THEN <<>>
    ELSE LET t == Head(tracks) IN
         IF t.name # <<>> /\ t.artist # <<>>
         THEN <<t.name \o <<" ">> \o t.artist>> \o track_names(Tail(tracks))
         ELSE track_names(Tail(tracks))

\* a URL https://open.spotify.com/search/<path>
SearchUrl(path) == [kind |-> "search", path |-> path]

\* the search URL of a mood alone, or of no mood
MoodOnlyUrl(mood) ==
    SearchUrl((IF mood # None THEN Lower(MoodChars(mood))
                              ELSE <<"m","o","o","d">>)
              \o <<"%","2","0","m","u","s","i","c">>)

\* the mood-only search URL for an empty track list
NoTracksUrlMood(mood) == MoodOnlyUrl(mood)

\* what create_spotify_playlist_url returns for an empty track list
NoTracksUrl(mood) == NoUrl

\* create_spotify_playlist_url(tracks, mood); mood is a label or None
create_spotify_playlist_url(tracks, mood) ==
    IF tracks = <<>> THEN NoTracksUrl(mood)
    ELSE LET track_ids == SelectSeq(tracks, LAMBDA t : t.id # None)
             names     == track_names(FirstN(tracks, 5))
         IN
         IF track_ids # <<>> /\ names # <<>>
         THEN SearchUrl(Quote(IF mood # None
                              THEN MoodChars(mood) \o <<" ">> \o JoinSpace(names)
                              ELSE JoinSpace(names)))
         ELSE IF names # <<>>
         THEN SearchUrl(Quote(IF mood # None
                              THEN MoodChars(mood) \o <<" ","m","o","o","d"," ">>
                                   \o JoinSpace(names)
                              ELSE JoinSpace(names)))
         ELSE MoodOnlyUrl(mood)

----------------------------------------------------------------------------
(* State *)

VARIABLES
    mood_model,         \* TRUE when the global mood_model is not None
    face_cascade,       \* TRUE when the global face_cascade is not None
    spotify_client,     \* TRUE when the global spotify_client is not None
    spotify_oauth,      \* TRUE when the global spotify_oauth is not None
    token_cached,       \* TRUE when .spotify_cache holds a token
    created_playlists,  \* the dict created_playlists: mood -> playlist URL
    account,            \* the playlists of the Spotify user, as the API lists them
    nextId,             \* the number of the next playlist Spotify creates
    last,               \* the last request handled: its inputs, the external
                        \* calls it made and its response
    call,               \* the arguments of a call of a pure function
    ret,                \* its result
    active_connections, \* manager.active_connections
    pc,                 \* per connection, where its handler is
    clientOpen,         \* per connection, whether the client still holds it open
    inbox,              \* per connection, the reply the handler is sending
    received,           \* per connection, the messages received, oldest first
    sent,               \* per connection, the replies sent, oldest first
    running,            \* the request whose coroutine the event loop runs, 0
                        \* when it runs none
    task                \* per request, where its coroutine is and its locals

serviceVars == <<mood_model, face_cascade, spotify_client, spotify_oauth,
                 token_cached, created_playlists, account, nextId, last>>

pureVars == <<call, ret>>

wsVars == <<active_connections, pc, clientOpen, inbox, received, sent>>

loopVars == <<running, task>>

vars == <<serviceVars, pureVars, wsVars, loopVars>>

----------------------------------------------------------------------------
(* Inputs of the model *)

KaguyaPrefix == <<"k","a","g","u","y","a">>

\* playlists the user owns besides the ones this service creates: one whose
\* name matches the brand prefix in another case, one that only contains it
UserPlaylistA ==
    [id |-> <<"u", 1>>, name |-> <<"K","a","G","u","y","a"," ","m","i","x">>]

UserPlaylistB ==
    [id |-> <<"u", 2>>, name |-> <<"m","y"," ","k","a","g","u","y","a">>]

TrackA == TrackItem("t1", <<"a">>, <<<<"b">>>>)

TrackB == TrackItem("t2", <<"c"," ","d">>, <<>>)

TrackNoId == TrackItem(None, <<"e">>, <<<<"f">>>>)

\* what spotify_client.search answers in the service model
CatalogAnswers ==
    { SearchRaises, SearchAnswers(<<>>),
      SearchAnswers(<<TrackA, EmptyItem, TrackA, TrackB>>),
      SearchAnswers(<<TrackNoId>>) }

\* the mood path parameters tried: two of the labels, a label in another
\* case and a string that is no label
MoodInputs == {"Happy", "Sad", "happy", "InvalidMood"}

\* the limit query parameters tried
Limits == 0..MaxLimit

\* the default of the limit query parameter
DefaultLimit == 20

----------------------------------------------------------------------------
(* The playlist manager *)

\* get_authenticated_spotify_client(): whether it returns a client, and the
\* external calls it makes; tokenValid is what the identity check answers
get_authenticated_spotify_client(tokenValid) ==
    IF ~spotify_oauth THEN [sp |-> FALSE, calls |-> <<>>]
    ELSE IF ~token_cached THEN [sp |-> FALSE, calls |-> <<>>]
    ELSE [sp |-> tokenValid, calls |-> <<"current_user">>]

\* the track URIs create_actual_spotify_playlist adds: the ids of tracks[:50],
\* each once, in order
RECURSIVE track_uris(_, _)
track_uris(tracks, seen_uris) ==
    IF tracks = <<>> THEN <<>>
    ELSE LET id == Head(tracks).id IN
         IF id # None /\ id \notin seen_uris
         THEN <<id>> \o track_uris(Tail(tracks), seen_uris \cup {id})
         ELSE track_uris(Tail(tracks), seen_uris)

\* playlist_name of create_actual_spotify_playlist
playlist_name(mood) ==
    KaguyaPrefix \o <<" ">> \o Lower(MoodChars(mood)) \o <<" ","m","o","o","d">>

\* the playlist Spotify creates on user_playlist_create
NewPlaylist(mood) == [id |-> <<"p", nextId>>, name |-> playlist_name(mood)]

\* the empty dict
EmptyDict == [m \in {} |-> NoUrl]

\* a cache check that never finds the mood
CacheNeverHit(mood) == FALSE

\* the cache check of create_actual_spotify_playlist
CacheHit(mood) == mood \in DOMAIN created_playlists

\* a search URL where the code returns None
NoClientUrlFallback(tracks, mood) == create_spotify_playlist_url(tracks, mood)

\* what create_actual_spotify_playlist returns without an authenticated client
NoClientUrl(tracks, mood) == NoUrl

\* created_playlists[mood] = playlist_url
StoreUrl(mood, url) ==
    [m \in DOMAIN created_playlists \cup {mood} |->
        IF m = mood THEN url ELSE created_playlists[m]]

\* a cache written as soon as the playlist exists
CacheStoredEarly(mood, new) == StoreUrl(mood, PlaylistUrl(new.id))

\* the cache create_actual_spotify_playlist leaves when playlist_add_items
\* raises, after the playlist new was created
CacheOnAddFailure(mood, new) == created_playlists

\* create_actual_spotify_playlist(tracks, mood): the URL it returns, the
\* cache it leaves, the external calls it makes and the playlists it has
\* Spotify create.  ext gives what the external calls do: tokenValid and
\* userOk the two identity checks, createOk user_playlist_create, addOk
\* playlist_add_items.
create_actual_spotify_playlist(tracks, mood, ext) ==
    LET nothing == [url |-> NoUrl, cache |-> created_playlists,
                    calls |-> <<>>, made |-> <<>>]
        auth    == get_authenticated_spotify_client(ext.tokenValid)
        uris    == track_uris(FirstN(tracks, 50), {})
        new     == NewPlaylist(mood)
    IN
    IF tracks = <<>> THEN nothing
    ELSE IF CacheHit(mood)
    THEN [nothing EXCEPT !.url = created_playlists[mood]]
    ELSE IF ~auth.sp
    THEN [nothing EXCEPT !.url = NoClientUrl(tracks, mood), !.calls = auth.calls]
    ELSE IF ~ext.userOk
    THEN [nothing EXCEPT !.calls = auth.calls \o <<"current_user">>]
    ELSE IF ~ext.createOk
    THEN [nothing EXCEPT
            !.calls = auth.calls \o <<"current_user", "user_playlist_create">>]
    ELSE IF uris # <<>> /\ ~ext.addOk
    THEN [nothing EXCEPT
            !.calls = auth.calls \o <<"current_user", "user_playlist_create",
                                      "playlist_add_items">>,
            !.cache = CacheOnAddFailure(mood, new),
            !.made = <<new>>]
    ELSE [url   |-> PlaylistUrl(new.id),
          cache |-> StoreUrl(mood, PlaylistUrl(new.id)),
          calls |-> auth.calls \o <<"current_user", "user_playlist_create">>
                    \o (IF uris # <<>> THEN <<"playlist_add_items">> ELSE <<>>),
          made  |-> <<new>>]

\* whether the service is in authenticated mode for a request: a token is
\* cached and the identity check accepts it
Authenticated(ext) == spotify_oauth /\ token_cached /\ ext.tokenValid

\* the outcomes of the external calls of one request.  The calls are made
\* in the order tokenValid, userOk, createOk, addOk and nothing is called
\* after one of them fails, so the outcomes of the calls after the first
\* failure are not enumerated.
ExtOutcomes ==
    { e \in [found : CatalogAnswers, tokenValid : BOOLEAN, userOk : BOOLEAN,
             createOk : BOOLEAN, addOk : BOOLEAN] :
        /\ ~e.tokenValid => e.userOk
        /\ ~(e.tokenValid /\ e.userOk) => e.createOk
        /\ ~(e.tokenValid /\ e.userOk /\ e.createOk) => e.addOk }

\* the bound of the model on playlist creation: a request that has Spotify
\* create a playlist is taken only while ids remain
WithinCreateBound(made) == made # <<>> => nextId <= MaxPlaylists

----------------------------------------------------------------------------
(* GET /playlist/{mood} *)

\* the response raise HTTPException(status_code) gives
HttpError(status) == [status |-> status, url |-> NoUrl, tracks |-> <<>>]

\* a test for an empty track list that never finds one
NoTracksNever(tracks) == FALSE

\* the `if not tracks` test of get_playlist_by_mood
NoTracks(tracks) == tracks = <<>>

\* a validation done before the catalog client is looked at
RejectedFirst(mood) ==
    IF mood \notin MoodValues THEN 400
    ELSE IF ~spotify_client THEN 503
    ELSE 0

\* the two checks get_playlist_by_mood starts with: the status it raises,
\* 0 when it goes on
Rejected(mood) ==
    IF ~spotify_client THEN 503
    ELSE IF mood \notin MoodValues THEN 400
    ELSE 0

\* get_playlist_by_mood(mood, limit): its response, the cache it leaves, the
\* external calls it makes and the playlists it has Spotify create
get_playlist_by_mood(mood, limit, ext) ==
    LET tracks == search_spotify_by_mood(spotify_client, ext.found, limit)
        made   == create_actual_spotify_playlist(tracks, mood, ext)
        quiet  == [cache |-> created_playlists, calls |-> <<>>, made |-> <<>>]
    IN
    IF Rejected(mood) # 0
    THEN quiet @@ HttpError(Rejected(mood))
    ELSE IF NoTracks(tracks)
    THEN [quiet EXCEPT !.calls = <<"search">>] @@ HttpError(404)
    ELSE [status |-> 200, url |-> made.url, tracks |-> tracks,
          cache |-> made.cache, calls |-> <<"search">> \o made.calls,
          made |-> made.made]

GetPlaylist(mood, limit, ext) ==
    \E r \in {get_playlist_by_mood(mood, limit, ext)} :
    /\ WithinCreateBound(r.made)
    /\ created_playlists' = r.cache
    /\ account' = account \o r.made
    /\ nextId' = nextId + Len(r.made)
    /\ last' = [op |-> "get_playlist", mood |-> mood, limit |-> limit,
                authenticated |-> Authenticated(ext), hit |-> CacheHit(mood),
                status |-> r.status, url |-> r.url, tracks |-> r.tracks,
                calls |-> r.calls]
    /\ UNCHANGED <<mood_model, face_cascade, spotify_client, spotify_oauth,
                   token_cached>>
    /\ UNCHANGED <<pureVars, wsVars, loopVars>>

----------------------------------------------------------------------------
(* Mood detection *)

\* what the detector and the classifier do on an image: the detector raises,
\* finds no face or finds faces; the classifier raises or answers with the
\* arg-max index of its prediction and its probability (in percent)
NoDetection == [mood |-> None, confidence |-> 0]

DetectorRaises == [detector |-> "raise", classifier |-> "ok", index |-> 0, confidence |-> 0]

DetectorFindsNone == [detector |-> "none", classifier |-> "ok", index |-> 0, confidence |-> 0]

ClassifierRaises == [detector |-> "faces", classifier |-> "raise", index |-> 0, confidence |-> 0]

Classified(index, confidence) ==
    [detector |-> "faces", classifier |-> "ok", index |-> index,
     confidence |-> confidence]

\* MOOD_LABELS.get(mood_index, "Unknown")
mood_label(index) ==
    IF index \in DOMAIN MOOD_LABELS THEN MOOD_LABELS[index] ELSE "Unknown"

\* detect_mood_from_image(image_array): (mood_name, confidence), with
\* (None, 0.0) for no face and for every exception
detect_mood_from_image(det) ==
    IF ~mood_model THEN NoDetection
    ELSE IF ~face_cascade THEN NoDetection
    ELSE IF det.detector = "raise" THEN NoDetection
    ELSE IF det.detector = "none" THEN NoDetection
    ELSE IF det.classifier = "raise" THEN NoDetection
    ELSE [mood |-> mood_label(det.index), confidence |-> det.confidence]

\* the detections tried: the failures, a label and an index outside the table
Detections ==
    { DetectorRaises, DetectorFindsNone, ClassifierRaises, Classified(3, 90) }

\* the images tried: one that base64_to_image cannot decode, and one for
\* each detection
Images ==
    {[decodable |-> FALSE, det |-> DetectorRaises]}
    \cup {[decodable |-> TRUE, det |-> d] : d \in Detections}

----------------------------------------------------------------------------
(* POST /detect-mood *)

NoFaceDetail == "No face detected in image"

InvalidImageDetail == "Invalid image data"

ModelsNotLoadedDetail == "Mood detection models not loaded"

\* a handler that decodes the image before it looks at the models
DecodedFirst(decodable) ==
    IF ~decodable THEN [status |-> 400, detail |-> InvalidImageDetail]
    ELSE IF ~mood_model \/ ~face_cascade
    THEN [status |-> 503, detail |-> ModelsNotLoadedDetail]
    ELSE [status |-> 0, detail |-> ""]

\* the check of the models and the decoding detect_mood starts with: the
\* HTTPException raised, status 0 when it goes on
DetectRejected(decodable) ==
    IF ~mood_model \/ ~face_cascade
    THEN [status |-> 503, detail |-> ModelsNotLoadedDetail]
    ELSE IF ~decodable THEN [status |-> 400, detail |-> InvalidImageDetail]
    ELSE [status |-> 0, detail |-> ""]

\* detect_mood(request); decodable says whether base64_to_image decodes
\* request.image_base64
detect_mood(decodable, det) ==
    LET d == detect_mood_from_image(det)
        rejected == DetectRejected(decodable)
    IN
    IF rejected.status # 0
    THEN [status |-> rejected.status, detail |-> rejected.detail,
          mood |-> None, confidence |-> 0]
    ELSE IF d.mood = None
    THEN [status |-> 400, detail |-> NoFaceDetail, mood |-> None,
          confidence |-> 0]
    ELSE [status |-> 200, detail |-> "", mood |-> d.mood,
          confidence |-> d.confidence]

DetectMood(decodable, det) ==
    \E r \in {detect_mood(decodable, det)} :
    /\ last' = [op |-> "detect_mood", decodable |-> decodable, det |-> det,
                status |-> r.status, detail |-> r.detail, mood |-> r.mood,
                confidence |-> r.confidence]
    /\ UNCHANGED <<mood_model, face_cascade, spotify_client, spotify_oauth,
                   token_cached, created_playlists, account, nextId>>
    /\ UNCHANGED <<pureVars, wsVars, loopVars>>

----------------------------------------------------------------------------
(* POST /upload-image *)

\* a file parameter with a default, which the request may leave out
FileOptional == FALSE

\* file: UploadFile = File(...): the parameter is required, and a request
\* without it is answered 422 before the handler is called
FileRequired == TRUE

\* the multipart requests tried: without a file, with a file that is no
\* image, and with each image
Uploads ==
    {[attached |-> FALSE, decodable |-> FALSE, det |-> DetectorRaises]}
    \cup {[attached |-> TRUE, decodable |-> i.decodable, det |-> i.det] :
             i \in Images}

\* upload_image_mood_detection(file): the response status and whether
\* detect_mood_from_image was called.  Without a file object file.read()
\* raises, and Image.open raises on contents that are no image; both are
\* answered 500 by the last except clause.
upload_image_mood_detection(attached, decodable, det) ==
    LET d == detect_mood_from_image(det) IN
    IF FileRequired /\ ~attached THEN [status |-> 422, detected |-> FALSE]
    ELSE IF ~mood_model \/ ~face_cascade THEN [status |-> 503, detected |-> FALSE]
    ELSE IF ~attached THEN [status |-> 500, detected |-> FALSE]
    ELSE IF ~decodable THEN [status |-> 500, detected |-> FALSE]
    ELSE IF d.mood = None THEN [status |-> 400, detected |-> TRUE]
    ELSE [status |-> 200, detected |-> TRUE]

UploadImage(attached, decodable, det) ==
    \E r \in {upload_image_mood_detection(attached, decodable, det)} :
    /\ last' = [op |-> "upload_image", attached |-> attached,
                status |-> r.status, detected |-> r.detected]
    /\ UNCHANGED <<mood_model, face_cascade, spotify_client, spotify_oauth,
                   token_cached, created_playlists, account, nextId>>
    /\ UNCHANGED <<pureVars, wsVars, loopVars>>

----------------------------------------------------------------------------
(* POST /mood-and-playlist *)

\* a 404 for a search that finds nothing
NoRecommendations404(d) ==
    [cache |-> created_playlists, calls |-> <<"search">>, made |-> <<>>,
     mood |-> None, confidence |-> 0] @@ HttpError(404)

\* the response of detect_mood_and_get_playlist to a search that finds
\* nothing
NoRecommendations(d) ==
    [status |-> 200, url |-> NoUrl, tracks |-> <<>>,
     cache |-> created_playlists, calls |-> <<"search">>, made |-> <<>>,
     mood |-> d.mood, confidence |-> d.confidence]

\* detect_mood_and_get_playlist(request, limit); decodable says whether
\* base64_to_image decodes request.image_base64
detect_mood_and_get_playlist(decodable, det, limit, ext) ==
    LET d      == detect_mood_from_image(det)
        tracks == search_spotify_by_mood(spotify_client, ext.found, limit)
        made   == create_actual_spotify_playlist(tracks, d.mood, ext)
        quiet  == [cache |-> created_playlists, calls |-> <<>>, made |-> <<>>,
                   mood |-> None, confidence |-> 0]
    IN
    IF ~mood_model \/ ~face_cascade THEN quiet @@ HttpError(503)
    ELSE IF ~spotify_client THEN quiet @@ HttpError(503)
    ELSE IF ~decodable THEN quiet @@ HttpError(400)
    ELSE IF d.mood = None THEN quiet @@ HttpError(400)
    ELSE IF tracks = <<>> THEN NoRecommendations(d)
    ELSE [status |-> 200, url |-> made.url, tracks |-> tracks,
          cache |-> made.cache, calls |-> <<"search">> \o made.calls,
          made |-> made.made, mood |-> d.mood, confidence |-> d.confidence]

MoodAndPlaylist(decodable, det, limit, ext) ==
    \E r \in {detect_mood_and_get_playlist(decodable, det, limit, ext)} :
    /\ WithinCreateBound(r.made)
    /\ created_playlists' = r.cache
    /\ account' = account \o r.made
    /\ nextId' = nextId + Len(r.made)
    /\ last' = [op |-> "mood_and_playlist", mood |-> r.mood, limit |-> limit,
                authenticated |-> Authenticated(ext),
                hit |-> (r.mood # None /\ CacheHit(r.mood)),
                status |-> r.status, url |-> r.url, tracks |-> r.tracks,
                calls |-> r.calls, confidence |-> r.confidence,
                decodable |-> decodable, det |-> det]
    /\ UNCHANGED <<mood_model, face_cascade, spotify_client, spotify_oauth,
                   token_cached>>
    /\ UNCHANGED <<pureVars, wsVars, loopVars>>

----------------------------------------------------------------------------
(* POST /cleanup *)

\* sp.current_user_playlists(limit, offset)['items']
current_user_playlists(limit, offset) ==
    SubSeq(account, offset + 1,
           IF offset + limit < Len(account) THEN offset + limit ELSE Len(account))

\* the while loop of cleanup_kaguya_playlists from offset on
RECURSIVE fetch_playlists(_, _)
fetch_playlists(offset, limit) ==
    LET items == current_user_playlists(limit, offset) IN
    IF Len(items) < limit THEN items
    ELSE items \o fetch_playlists(offset + limit, limit)

\* a filter that compares the name as it is written
IsKaguyaSameCase(playlist) == StartsWith(playlist.name, KaguyaPrefix)

\* the filter of cleanup_kaguya_playlists
IsKaguya(playlist) == StartsWith(Lower(playlist.name), KaguyaPrefix)

kaguya_playlists(playlists) == SelectSeq(playlists, IsKaguya)

\* the cache after a cleanup that found the playlists found
CacheAfterCleanup(found) ==
    IF found = <<>> THEN created_playlists ELSE EmptyDict

\* cleanup_kaguya_playlists(): failing is the set of playlist ids whose
\* user_playlist_unfollow raises, listOk whether the listing succeeds
cleanup_kaguya_playlists(ext, listOk, failing) ==
    LET auth    == get_authenticated_spotify_client(ext.tokenValid)
        found   == kaguya_playlists(fetch_playlists(0, 50))
        deleted == SelectSeq(found, LAMBDA p : p.id \notin failing)
        quiet   == [deleted |-> <<>>, attempted |-> <<>>,
                    cache |-> created_playlists]
    IN
    IF ~auth.sp THEN quiet @@ [status |-> 503]
    ELSE IF ~ext.userOk THEN quiet @@ [status |-> 500]
    ELSE IF ~listOk THEN quiet @@ [status |-> 500]
    ELSE [status |-> 200, deleted |-> deleted, attempted |-> found,
          cache |-> CacheAfterCleanup(found)]

\* the outcomes of the identity checks of a cleanup
CleanupOutcomes ==
    { e \in ExtOutcomes :
        e.found = SearchRaises /\ e.createOk /\ e.addOk }

\* the ids of the playlists of the account the filter lets through
KaguyaIds ==
    { account[i].id : i \in { j \in DOMAIN account : IsKaguya(account[j]) } }

Cleanup(ext, listOk, failing) ==
    \E r \in {cleanup_kaguya_playlists(ext, listOk, failing)} :
    /\ created_playlists' = r.cache
    /\ account' = SelectSeq(account,
                            LAMBDA p : \A i \in DOMAIN r.deleted : r.deleted[i] # p)
    /\ last' = [op |-> "cleanup", status |-> r.status,
                authenticated |-> Authenticated(ext),
                listed |-> account, failing |-> failing,
                attempted |-> r.attempted, deleted |-> r.deleted,
                deleted_count |-> Len(r.deleted)]
    /\ UNCHANGED <<mood_model, face_cascade, spotify_client, spotify_oauth,
                   token_cached, nextId>>
    /\ UNCHANGED <<pureVars, wsVars, loopVars>>

----------------------------------------------------------------------------
(* GET /spotify-auth-url *)

\* get_spotify_auth_url(): the response status; urlOk says whether
\* spotify_oauth.get_authorize_url() answers.  The handler has one except
\* clause, `except Exception`, which also catches the HTTPException the
\* handler raises itself and raises a 500 in its place.
get_spotify_auth_url(urlOk) ==
    LET raised == IF ~spotify_oauth THEN 503
                  ELSE IF ~urlOk THEN 1
                  ELSE 0
    IN IF raised # 0 THEN 500 ELSE 200

GetSpotifyAuthUrl(urlOk) ==
    /\ last' = [op |-> "spotify_auth_url", status |-> get_spotify_auth_url(urlOk)]
    /\ UNCHANGED <<mood_model, face_cascade, spotify_client, spotify_oauth,
                   token_cached, created_playlists, account, nextId>>
    /\ UNCHANGED <<pureVars, wsVars, loopVars>>

----------------------------------------------------------------------------
(* POST /spotify-token *)

\* what spotify_oauth.get_access_token(code) does: it answers with a token
\* (and writes it to .spotify_cache), answers nothing, raises a
\* SpotifyException or raises another exception
CodeOutcomes == {"token", "none", "spotify_error", "error"}

\* set_spotify_token(code): the response status
set_spotify_token(outcome, userOk) ==
    IF ~spotify_oauth THEN 503
    ELSE IF outcome = "none" THEN 400
    ELSE IF outcome = "spotify_error" THEN 400
    ELSE IF outcome = "error" THEN 500
    ELSE IF ~userOk THEN 400
    ELSE 200

SetSpotifyToken(outcome, userOk) ==
    /\ token_cached' = (token_cached \/ (spotify_oauth /\ outcome = "token"))
    /\ last' = [op |-> "spotify_token",
                status |-> set_spotify_token(outcome, userOk)]
    /\ UNCHANGED <<mood_model, face_cascade, spotify_client, spotify_oauth,
                   created_playlists, account, nextId>>
    /\ UNCHANGED <<pureVars, wsVars, loopVars>>

----------------------------------------------------------------------------
(* The Spotify user *)

\* the user removes playlist number i of the account in the Spotify app
UserUnfollows(i) ==
    /\ i \in DOMAIN account
    /\ account' = SubSeq(account, 1, i - 1) \o SubSeq(account, i + 1, Len(account))
    /\ last' = [op |-> "user_unfollows"]
    /\ UNCHANGED <<mood_model, face_cascade, spotify_client, spotify_oauth,
                   token_cached, created_playlists, nextId>>
    /\ UNCHANGED <<pureVars, wsVars, loopVars>>

----------------------------------------------------------------------------
(* Startup *)

\* the moods a playlist can be created for
PlaylistMoods == MoodValues \cup {"Unknown"}

\* the values the other parts of the model keep while one part runs
PureIdle == call = [fn |-> "none"] /\ ret = [fn |-> "none"]

\* no request is being handled
LoopIdle == running = 0 /\ task = <<>>

WsIdle ==
    /\ active_connections = <<>>
    /\ pc = <<>>
    /\ clientOpen = <<>>
    /\ inbox = <<>>
    /\ received = <<>>
    /\ sent = <<>>

ServiceIdle ==
    /\ mood_model = FALSE
    /\ face_cascade = FALSE
    /\ spotify_client = FALSE
    /\ spotify_oauth = FALSE
    /\ token_cached = FALSE
    /\ created_playlists = EmptyDict
    /\ account = <<>>
    /\ nextId = 1
    /\ last = [op |-> "startup"]

\* initialize_spotify(): spotify_oauth is assigned before spotify_client,
\* and either assignment may be skipped by a missing credential or an
\* exception
SpotifyInitialized ==
    /\ spotify_oauth \in BOOLEAN
    /\ spotify_client \in BOOLEAN
    /\ spotify_client => spotify_oauth

\* the state after startup_event
Init ==
    /\ mood_model \in BOOLEAN
    /\ face_cascade \in BOOLEAN
    /\ SpotifyInitialized
    /\ token_cached \in BOOLEAN
    /\ created_playlists = EmptyDict
    /\ account = <<UserPlaylistB>>
    /\ nextId = 1
    /\ last = [op |-> "startup"]
    /\ PureIdle
    /\ WsIdle
    /\ LoopIdle

\* the requests that ask for a playlist, the token exchange and the
\* requests that ask for a mood alone
Next ==
    \/ \E mood \in MoodInputs, ext \in ExtOutcomes :
           GetPlaylist(mood, DefaultLimit, ext)
    \/ \E image \in Images, ext \in ExtOutcomes :
           MoodAndPlaylist(image.decodable, image.det, DefaultLimit, ext)
    \/ \E outcome \in CodeOutcomes, userOk \in BOOLEAN :
           SetSpotifyToken(outcome, userOk)
    \/ \E urlOk \in BOOLEAN : GetSpotifyAuthUrl(urlOk)
    \/ \E image \in Images : DetectMood(image.decodable, image.det)
    \/ \E upload \in Uploads :
           UploadImage(upload.attached, upload.decodable, upload.det)

Spec == Init /\ [][Next]_vars

\* the state after startup_event of a service without the model files and
\* with its Spotify credentials, whose user owns two playlists already
InitCleanup ==
    /\ mood_model = FALSE
    /\ face_cascade = FALSE
    /\ spotify_oauth = TRUE
    /\ spotify_client = TRUE
    /\ token_cached \in BOOLEAN
    /\ created_playlists = EmptyDict
    /\ account = <<UserPlaylistB, UserPlaylistA>>
    /\ nextId = 1
    /\ last = [op |-> "startup"]
    /\ PureIdle
    /\ WsIdle
    /\ LoopIdle

\* the outcomes of the external calls of a request whose search finds one
\* track
OneTrackOutcomes ==
    { e \in ExtOutcomes : e.found.ok /\ Len(e.found.items) = 1 }

\* playlist requests, cleanups and the user's own removals
NextCleanup ==
    \/ \E mood \in {"Happy", "Sad"}, ext \in OneTrackOutcomes :
           GetPlaylist(mood, DefaultLimit, ext)
    \/ \E ext \in CleanupOutcomes, listOk \in BOOLEAN,
          failing \in SUBSET KaguyaIds :
           Cleanup(ext, listOk, failing)
    \/ \E i \in DOMAIN account : UserUnfollows(i)

SpecCleanup == InitCleanup /\ [][NextCleanup]_vars

----------------------------------------------------------------------------
(* Concurrent playlist requests on the event loop *)

\* The handlers are coroutines (async def) on one event loop: the loop runs
\* one coroutine at a time and takes up another only where the running one
\* awaits.  The steps below are the external calls of get_playlist_by_mood
\* and of create_actual_spotify_playlist, which it calls as a plain
\* function, for a valid mood whose search finds tracks.

Reqs == 1..MaxRequests

NoTask == [pc |-> "none", mood |-> None, playlist |-> <<>>, url |-> NoUrl]

\* a handler that awaits each external call of the playlist manager
AwaitsExternalCalls(at) == at \in {"auth", "create", "add"}

\* whether the coroutine awaits where it is about to do the step at: the
\* body of get_playlist_by_mood and create_actual_spotify_playlist hold no
\* await
AwaitsAt(at) == FALSE

\* the event loop may run the next step of request r
Scheduled(r) ==
    \/ running = r
    \/ running = 0 /\ task[r].pc \notin {"none", "done"}

\* request r goes on to t; the loop keeps running it unless it awaits there
\* or has returned
Advance(r, t) ==
    /\ task' = [task EXCEPT ![r] = t]
    /\ running' = IF t.pc = "done" \/ AwaitsAt(t.pc) THEN 0 ELSE r

\* a request for mood arrives and its coroutine is created
Arrive(r, mood) ==
    /\ task[r].pc = "none"
    /\ task' = [task EXCEPT ![r] = [NoTask EXCEPT !.pc = "pending", !.mood = mood]]
    /\ UNCHANGED <<running, serviceVars, pureVars, wsVars>>

\* the handler starts: the checks, the search and `mood in created_playlists`
CheckCache(r) ==
    /\ Scheduled(r)
    /\ task[r].pc = "pending"
    /\ IF CacheHit(task[r].mood)
       THEN Advance(r, [task[r] EXCEPT !.pc = "respond",
                                       !.url = created_playlists[task[r].mood]])
       ELSE Advance(r, [task[r] EXCEPT !.pc = "auth"])
    /\ UNCHANGED <<serviceVars, pureVars, wsVars>>

\* get_authenticated_spotify_client() and sp.current_user()
Authenticate(r, tokenValid, userOk) ==
    /\ Scheduled(r)
    /\ task[r].pc = "auth"
    /\ IF get_authenticated_spotify_client(tokenValid).sp /\ userOk
       THEN Advance(r, [task[r] EXCEPT !.pc = "create"])
       ELSE Advance(r, [task[r] EXCEPT !.pc = "respond"])
    /\ UNCHANGED <<serviceVars, pureVars, wsVars>>

\* sp.user_playlist_create
CreatePlaylist(r, createOk) ==
    /\ Scheduled(r)
    /\ task[r].pc = "create"
    /\ nextId <= MaxPlaylists
    /\ IF createOk
       THEN /\ Advance(r, [task[r] EXCEPT
                             !.pc = "add",
                             !.playlist = <<NewPlaylist(task[r].mood)>>])
            /\ account' = Append(account, NewPlaylist(task[r].mood))
            /\ nextId' = nextId + 1
       ELSE /\ Advance(r, [task[r] EXCEPT !.pc = "respond"])
            /\ UNCHANGED <<account, nextId>>
    /\ UNCHANGED <<mood_model, face_cascade, spotify_client, spotify_oauth,
                   token_cached, created_playlists, last, pureVars, wsVars>>

\* sp.playlist_add_items
AddItems(r, addOk) ==
    /\ Scheduled(r)
    /\ task[r].pc = "add"
    /\ IF addOk
       THEN Advance(r, [task[r] EXCEPT !.pc = "store"])
       ELSE Advance(r, [task[r] EXCEPT !.pc = "respond"])
    /\ UNCHANGED <<serviceVars, pureVars, wsVars>>

\* created_playlists[mood] = playlist_url
StorePlaylist(r) ==
    /\ Scheduled(r)
    /\ task[r].pc = "store"
    /\ created_playlists' =
           StoreUrl(task[r].mood, PlaylistUrl(task[r].playlist[1].id))
    /\ Advance(r, [task[r] EXCEPT
                     !.pc = "respond",
                     !.url = PlaylistUrl(task[r].playlist[1].id)])
    /\ UNCHANGED <<mood_model, face_cascade, spotify_client, spotify_oauth,
                   token_cached, account, nextId, last, pureVars, wsVars>>

\* the handler returns its PlaylistResponse
Respond(r) ==
    /\ Scheduled(r)
    /\ task[r].pc = "respond"
    /\ Advance(r, [task[r] EXCEPT !.pc = "done"])
    /\ UNCHANGED <<serviceVars, pureVars, wsVars>>

\* the state after startup_event of a service with its Spotify credentials
\* and a cached token, before any request
InitLoop ==
    /\ mood_model = FALSE
    /\ face_cascade = FALSE
    /\ spotify_client = TRUE
    /\ spotify_oauth = TRUE
    /\ token_cached = TRUE
    /\ created_playlists = EmptyDict
    /\ account = <<>>
    /\ nextId = 1
    /\ last = [op |-> "startup"]
    /\ PureIdle
    /\ WsIdle
    /\ running = 0
    /\ task = [r \in Reqs |-> NoTask]

NextLoop ==
    \E r \in Reqs :
        \/ \E mood \in {"Happy", "Sad"} : Arrive(r, mood)
        \/ CheckCache(r)
        \/ \E tokenValid \in BOOLEAN, userOk \in BOOLEAN :
               Authenticate(r, tokenValid, userOk)
        \/ \E createOk \in BOOLEAN : CreatePlaylist(r, createOk)
        \/ \E addOk \in BOOLEAN : AddItems(r, addOk)
        \/ StorePlaylist(r)
        \/ Respond(r)

SpecLoop == InitLoop /\ [][NextLoop]_vars

----------------------------------------------------------------------------
(* Claims about the playlist requests *)

PlaylistOps == {"get_playlist", "mood_and_playlist"}

\* the last request asked for a playlist and found tracks for its mood
FoundTracks ==
    /\ last.op \in PlaylistOps
    /\ last.status = 200
    /\ last.tracks # <<>>

\* the playlists of the account that user_playlist_create made for mood
CreatedFor(mood) ==
    { i \in DOMAIN account :
        account[i].id[1] = "p" /\ account[i].name = playlist_name(mood) }

\* C1: over any sequence of playlist requests with no cleanup in between, at
\* most one user_playlist_create call is made per mood, so that Spotify never
\* holds two playlists created for one mood.  (Calls are made in
\* authenticated mode only; Spec has no cleanup and no removal, so the
\* account holds every playlist a call created.)
C1_AtMostOneCreateCallPerMood ==
    \A m \in PlaylistMoods : Cardinality(CreatedFor(m)) <= 1

\* C2: a request that reaches create_actual_spotify_playlist with tracks for
\* a mood that is a key of the cache returns the stored URL, makes no call
\* of the playlist manager and leaves the cache as it is; and an entry of
\* the cache is never replaced by another.
C2_CachedMoodReused ==
    [][ /\ ( /\ last'.op \in PlaylistOps
             /\ last'.status = 200
             /\ last'.tracks # <<>>
             /\ last'.mood \in DOMAIN created_playlists )
           => /\ last'.url = created_playlists[last'.mood]
              /\ last'.calls = <<"search">>
              /\ created_playlists' = created_playlists
        /\ \A m \in DOMAIN created_playlists :
              /\ m \in DOMAIN created_playlists'
              /\ created_playlists'[m] = created_playlists[m]
      ]_vars

\* C2 (witness): a request for a cached mood was answered with the stored URL
C2_Witness ==
    /\ FoundTracks
    /\ last.hit
    /\ last.url = created_playlists[last.mood]
    /\ last.authenticated

\* C3 (as stated): a mood that is not a label gets 400 in every state
C3_InvalidMoodGets400 ==
    (last.op = "get_playlist" /\ last.mood \notin MoodValues)
        => last.status = 400

\* C3 (amended): a mood that is not a label gets 400 when the catalog client
\* is initialized and 503 when it is not
C3_InvalidMoodGets400Or503 ==
    (last.op = "get_playlist" /\ last.mood \notin MoodValues)
        => last.status = (IF spotify_client THEN 400 ELSE 503)

\* C3 (witness): a label in another case was refused with 400
C3_Witness ==
    /\ last.op = "get_playlist"
    /\ last.mood = "happy"
    /\ last.status = 400

\* C4: a mood of the enumeration gets 200 with tracks, 503 or 404
C4_ValidMoodStatus ==
    (last.op = "get_playlist" /\ last.mood \in MoodValues)
        => \/ last.status = 200 /\ last.tracks # <<>>
           \/ last.status = 503
           \/ last.status = 404

\* C4 (witness): a mood of the enumeration got 404 from a catalog that
\* was there
C4_Witness ==
    /\ last.op = "get_playlist"
    /\ last.mood \in MoodValues
    /\ last.status = 404
    /\ spotify_client

----------------------------------------------------------------------------
(* The catalog search on its own *)

\* the sequences over S of length at most n
SeqsUpTo(S, n) == UNION { [1..k -> S] : k \in 0..n }

\* the items of the catalog responses tried
SearchItems == {TrackA, TrackB, TrackNoId, EmptyItem}

InitSearch ==
    /\ call \in [fn : {"search"},
                 found : {SearchRaises}
                         \cup {SearchAnswers(items) :
                                   items \in SeqsUpTo(SearchItems, MaxItems)},
                 limit : Limits]
    /\ ret = [fn |-> "none"]
    /\ ServiceIdle
    /\ WsIdle
    /\ LoopIdle

\* search_spotify_by_mood is called, with a catalog client
ApplySearch ==
    /\ call.fn = "search"
    /\ ret.fn = "none"
    /\ ret' = [fn |-> "search",
               tracks |-> search_spotify_by_mood(TRUE, call.found, call.limit)]
    /\ UNCHANGED <<call, serviceVars, wsVars, loopVars>>

SpecSearch == InitSearch /\ [][ApplySearch]_vars

\* the ids of the non-empty items, each at its first occurrence
FirstOccurrences(items) ==
    LET keep == { i \in DOMAIN items :
                    /\ items[i].item
                    /\ \A j \in 1..(i - 1) :
                          items[j].item => items[j].id # items[i].id }
        nth[k \in 0..Len(items)] ==
            IF k = 0 THEN <<>>
            ELSE IF k \in keep THEN Append(nth[k - 1], items[k].id)
            ELSE nth[k - 1]
    IN nth[Len(items)]

Ids(tracks) == [i \in DOMAIN tracks |-> tracks[i].id]

\* the result holds every id once, in the order of first occurrence
DedupInOrder ==
    LET ids == Ids(ret.tracks) IN
    /\ \A i, j \in DOMAIN ids : i # j => ids[i] # ids[j]
    /\ Len(ids) <= Len(FirstOccurrences(call.found.items))
    /\ ids = SubSeq(FirstOccurrences(call.found.items), 1, Len(ids))

\* C5: for any catalog response and any limit the result of
\* search_spotify_by_mood holds every id at most once, in the order of first
\* occurrence, and is no longer than the limit
C5_DedupOrderLimit ==
    ret.fn = "search" => /\ DedupInOrder
                         /\ Len(ret.tracks) <= call.limit

\* C5 holds of every limit of at least 1 (the limit test follows the append,
\* so the result has one track where the limit is 0)
C5_ForPositiveLimit ==
    ret.fn = "search" => /\ DedupInOrder
                         /\ call.limit >= 1 => Len(ret.tracks) <= call.limit
                         /\ Len(ret.tracks) <= 1 \/ Len(ret.tracks) <= call.limit

----------------------------------------------------------------------------
(* The fallback URL builder on its own *)

\* the tracks tried: with and without an id, a name, an artist
UrlTracks ==
    [id : {"t1", None},
     name : {<<>>, <<"a">>, <<"R","&","B">>},
     artist : {<<>>, <<"b"," ","c">>}]

InitUrl ==
    /\ call \in [fn : {"url"},
                 tracks : SeqsUpTo(UrlTracks, MaxTracks),
                 mood : {"Happy", "Sad", None}]
    /\ ret = [fn |-> "none"]
    /\ ServiceIdle
    /\ WsIdle
    /\ LoopIdle

\* create_spotify_playlist_url is called
ApplyUrl ==
    /\ call.fn = "url"
    /\ ret.fn = "none"
    /\ ret' = [fn |-> "url",
               url |-> create_spotify_playlist_url(call.tracks, call.mood)]
    /\ UNCHANGED <<call, serviceVars, wsVars, loopVars>>

SpecUrl == InitUrl /\ [][ApplyUrl]_vars

\* s holds part as a substring
Contains(s, part) ==
    \E i \in 0..(Len(s) - Len(part)) : SubSeq(s, i + 1, i + Len(part)) = part

\* no track among the first five has both a name and an artist
NoNamedTrack(tracks) ==
    \A i \in DOMAIN tracks :
        i <= 5 => (tracks[i].name = <<>> \/ tracks[i].artist = <<>>)

GenericUrl == SearchUrl(<<"m","o","o","d","%","2","0","m","u","s","i","c">>)

\* C6 (as stated): with zero tracks and a mood the builder returns a search
\* URL holding the mood token, and with zero tracks and no mood the generic
\* search URL
C6_ZeroTracksMoodUrl ==
    (ret.fn = "url" /\ call.tracks = <<>>)
        => IF call.mood # None
           THEN /\ ret.url.kind = "search"
                /\ \/ Contains(ret.url.path, MoodChars(call.mood))
                   \/ Contains(ret.url.path, Lower(MoodChars(call.mood)))
           ELSE ret.url = GenericUrl

\* C6 (amended): with zero tracks the builder returns no URL; the search URL
\* of the lower-cased mood, and the generic one when there is no mood, is
\* what it returns for tracks of which none has both a name and an artist
C6_MoodUrlForUnnamedTracks ==
    ret.fn = "url"
        => /\ call.tracks = <<>> => ret.url = NoUrl
           /\ (call.tracks # <<>> /\ NoNamedTrack(call.tracks))
                 => /\ ret.url.kind = "search"
                    /\ ~Contains(ret.url.path, <<" ">>)
                    /\ IF call.mood # None
                       THEN /\ Contains(ret.url.path, Lower(MoodChars(call.mood)))
                            /\ ret.url.path = Lower(MoodChars(call.mood))
                                 \o <<"%","2","0","m","u","s","i","c">>
                       ELSE ret.url = GenericUrl

\* C6 (witness): tracks without names and a mood gave the URL of the mood
C6_Witness ==
    /\ ret.fn = "url"
    /\ call.tracks # <<>>
    /\ NoNamedTrack(call.tracks)
    /\ call.mood = "Happy"
    /\ ret.url = SearchUrl(<<"h","a","p","p","y","%","2","0","m","u","s","i","c">>)

----------------------------------------------------------------------------
(* The /ws/video-mood handler *)

\* the connections tried
Conns == {1, 2}

\* A text message of the client: text that is no JSON, or JSON of the type
\* given; has_image says whether Python's `"image" in data` holds of it (a
\* key of an object, an element of a list, a substring of a string);
\* decodable whether base64_to_image decodes data["image"]; face whether
\* the detector finds a face in it.
Message(type, has_image, decodable, face) ==
    [type |-> type, has_image |-> has_image, decodable |-> decodable,
     face |-> face]

NotJson == Message("not_json", FALSE, FALSE, FALSE)

JsonNumber == Message("number", FALSE, FALSE, FALSE)

JsonString == Message("string", TRUE, FALSE, FALSE)

NoImageField == Message("object", FALSE, FALSE, FALSE)

BadImage == Message("object", TRUE, FALSE, FALSE)

FaceImage == Message("object", TRUE, TRUE, TRUE)

Messages ==
    { NotJson, JsonNumber, JsonString, NoImageField, BadImage, FaceImage }

\* the messages with an image that decodes
ValidFrame(msg) == msg.type = "object" /\ msg.has_image /\ msg.decodable

\* the replies of the handler
NoImageReply == [error |-> "No image data provided"]

FailedReply == [error |-> "Failed to process frame"]

ResultReply(msg) == [mood |-> IF msg.face THEN "Happy" ELSE None]

\* whether websocket.receive_json() raises on the message (json.loads)
ReceiveRaises(msg) == msg.type = "not_json"

\* whether `"image" not in data` raises: a TypeError on data that is no
\* container
ContainsRaises(msg) == msg.type \notin {"object", "list", "string"}

\* whether the body of the inner try raises: data["image"] on a list or a
\* string, or base64_to_image on data that is no image
ProcessingRaises(msg) == msg.type # "object" \/ ~msg.decodable

\* one turn of the loop of websocket_video_mood from the message received
\* to its next await: where the handler is then, and the reply it is
\* sending there
handle_message(msg) ==
    IF ReceiveRaises(msg) THEN [pc |-> "crashed", reply |-> <<>>]
    ELSE IF ContainsRaises(msg) THEN [pc |-> "crashed", reply |-> <<>>]
    ELSE IF ~msg.has_image THEN [pc |-> "send_no_image", reply |-> <<NoImageReply>>]
    ELSE IF ProcessingRaises(msg) THEN [pc |-> "send_failed", reply |-> <<FailedReply>>]
    ELSE [pc |-> "send_result", reply |-> <<ResultReply(msg)>>]

\* manager.connect(websocket)
WsConnect(c) ==
    /\ pc[c] = "none"
    /\ pc' = [pc EXCEPT ![c] = "receive"]
    /\ active_connections' = Append(active_connections, c)
    /\ clientOpen' = [clientOpen EXCEPT ![c] = TRUE]
    /\ UNCHANGED <<inbox, received, sent, serviceVars, pureVars, loopVars>>

\* the client closes the connection
ClientCloses(c) ==
    /\ pc[c] # "none"
    /\ clientOpen[c]
    /\ clientOpen' = [clientOpen EXCEPT ![c] = FALSE]
    /\ UNCHANGED <<active_connections, pc, inbox, received, sent,
                   serviceVars, pureVars, loopVars>>

\* manager.disconnect(websocket)
disconnect(c) == SelectSeq(active_connections, LAMBDA x : x # c)

\* websocket.receive_json() returns a message of the client, and the
\* handler runs to its next await
WsReceive(c, msg) ==
    /\ pc[c] = "receive"
    /\ clientOpen[c]
    /\ Len(received[c]) < MaxFrames
    /\ received' = [received EXCEPT ![c] = Append(@, msg)]
    /\ pc' = [pc EXCEPT ![c] = handle_message(msg).pc]
    /\ inbox' = [inbox EXCEPT ![c] = handle_message(msg).reply]
    /\ UNCHANGED <<active_connections, clientOpen, sent, serviceVars, pureVars, loopVars>>

\* websocket.receive_json() raises WebSocketDisconnect
WsReceiveDisconnect(c) ==
    /\ pc[c] = "receive"
    /\ ~clientOpen[c]
    /\ pc' = [pc EXCEPT ![c] = "closed"]
    /\ active_connections' = disconnect(c)
    /\ UNCHANGED <<clientOpen, inbox, received, sent, serviceVars, pureVars, loopVars>>

\* a send_personal_message of the handler completes
WsSend(c) ==
    /\ pc[c] \in {"send_no_image", "send_failed", "send_result"}
    /\ sent' = [sent EXCEPT ![c] = @ \o inbox[c]]
    /\ inbox' = [inbox EXCEPT ![c] = <<>>]
    /\ pc' = [pc EXCEPT ![c] = "receive"]
    /\ UNCHANGED <<active_connections, clientOpen, received, serviceVars,
                   pureVars, loopVars>>

\* a send_personal_message of the handler raises, the client having closed
\* the connection: WebSocketDisconnect (disconnected) or another exception.
\* The send of the result is inside the inner try, whose handler then sends
\* the error reply; the two sends of an error reply are not.
WsSendRaises(c, disconnected) ==
    /\ pc[c] \in {"send_no_image", "send_failed", "send_result"}
    /\ ~clientOpen[c]
    /\ IF pc[c] = "send_result"
       THEN /\ pc' = [pc EXCEPT ![c] = "send_failed"]
            /\ inbox' = [inbox EXCEPT ![c] = <<FailedReply>>]
            /\ UNCHANGED active_connections
       ELSE IF disconnected
       THEN /\ pc' = [pc EXCEPT ![c] = "closed"]
            /\ inbox' = [inbox EXCEPT ![c] = <<>>]
            /\ active_connections' = disconnect(c)
       ELSE /\ pc' = [pc EXCEPT ![c] = "crashed"]
            /\ inbox' = [inbox EXCEPT ![c] = <<>>]
            /\ UNCHANGED active_connections
    /\ UNCHANGED <<clientOpen, received, sent, serviceVars, pureVars, loopVars>>

InitWs ==
    /\ active_connections = <<>>
    /\ pc = [c \in Conns |-> "none"]
    /\ clientOpen = [c \in Conns |-> FALSE]
    /\ inbox = [c \in Conns |-> <<>>]
    /\ received = [c \in Conns |-> <<>>]
    /\ sent = [c \in Conns |-> <<>>]
    /\ ServiceIdle
    /\ PureIdle
    /\ LoopIdle

NextWs ==
    \E c \in Conns :
        \/ WsConnect(c)
        \/ ClientCloses(c)
        \/ \E msg \in Messages : WsReceive(c, msg)
        \/ WsReceiveDisconnect(c)
        \/ WsSend(c)
        \/ \E disconnected \in BOOLEAN : WsSendRaises(c, disconnected)

SpecWs == InitWs /\ [][NextWs]_vars

----------------------------------------------------------------------------
(* Claims about the streaming endpoint *)

\* where the handler awaits a send
SendStates == {"send_no_image", "send_failed", "send_result"}

ErrorReplies == {NoImageReply, FailedReply}

\* C8: on a connection the client keeps open, every malformed message
\* (missing image field, undecodable image, payload that is no JSON object)
\* is answered by an inline error reply and the handler goes on receiving.
C8_MalformedGetsErrorReply ==
    \A c \in Conns :
        clientOpen[c] /\ pc[c] \notin SendStates =>
            /\ pc[c] = "receive"
            /\ Len(sent[c]) = Len(received[c])
            /\ \A i \in DOMAIN received[c] :
                   ~ValidFrame(received[c][i]) => sent[c][i] \in ErrorReplies

\* C9: the server sends exactly one reply for every frame it receives: on a
\* connection the client keeps open, whenever no send is pending there are
\* as many replies sent as frames received.
C9_OneReplyPerFrame ==
    \A c \in Conns :
        clientOpen[c] /\ pc[c] \notin SendStates =>
            Len(sent[c]) = Len(received[c])

\* the part of C9 on overlap: replies sent never exceed frames received and
\* never lag behind by more than one
C9_NoOverlap ==
    \A c \in Conns :
        /\ Len(sent[c]) <= Len(received[c])
        /\ Len(received[c]) <= Len(sent[c]) + 1

----------------------------------------------------------------------------
(* Claims about cleanup *)

\* C10: after every cleanup that completes with a success response, the
\* created_playlists cache is empty.
C10_CacheEmptyAfterCleanup ==
    last.op = "cleanup" /\ last.status = 200 => created_playlists = EmptyDict

\* the cache is empty after every cleanup that found a playlist to delete
C10_CacheEmptyAfterDeleting ==
    last.op = "cleanup" /\ last.status = 200 /\ last.attempted # <<>>
        => created_playlists = EmptyDict

\* the name starts with the letters k, a, g, u, y, a, each in either case
MatchesBrand(name) ==
    /\ Len(name) >= 6
    /\ name[1] \in {"k", "K"}
    /\ name[2] \in {"a", "A"}
    /\ name[3] \in {"g", "G"}
    /\ name[4] \in {"u", "U"}
    /\ name[5] \in {"y", "Y"}
    /\ name[6] \in {"a", "A"}

\* the playlists of a listing that match the brand, in the order listed
Matching(listed) == SelectSeq(listed, LAMBDA p : MatchesBrand(p.name))

\* C11: a cleanup that completes attempts exactly the playlists of the user
\* whose name starts with 'kaguya' in any case, goes on after a deletion
\* that fails, and reports exactly the matching playlists whose deletion
\* succeeded, which are the ones gone from the account.
C11_DeletesExactlyMatching ==
    (last.op = "cleanup" /\ last.status = 200)
        => /\ last.attempted = Matching(last.listed)
           /\ last.deleted =
                SelectSeq(Matching(last.listed),
                          LAMBDA p : p.id \notin last.failing)
           /\ last.deleted_count = Len(last.deleted)
           /\ account =
                SelectSeq(last.listed,
                          LAMBDA p : ~(MatchesBrand(p.name)
                                       /\ p.id \notin last.failing))

\* C11 (witness): a cleanup over a listing with a playlist that does not
\* match, in which the first matching playlist (one whose name is in another
\* case) failed to delete and a later one was deleted
C11_Witness ==
    /\ last.op = "cleanup"
    /\ last.status = 200
    /\ Len(last.attempted) >= 2
    /\ last.attempted[1] = UserPlaylistA
    /\ last.attempted[1].id \in last.failing
    /\ last.deleted # <<>>
    /\ \E i \in DOMAIN last.listed : ~MatchesBrand(last.listed[i].name)
    /\ \E i \in DOMAIN account : account[i] = UserPlaylistA

----------------------------------------------------------------------------
(* Claims about mood detection *)

\* C12: 'no face' is reported only when the detector returned zero regions;
\* an exception in the detector or the classifier is reported as another
\* outcome.
C12_NoFaceOnlyForZeroRegions ==
    (last.op = "detect_mood" /\ last.status = 400 /\ last.detail = NoFaceDetail)
        => last.det = DetectorFindsNone

\* C15: POST /detect-mood with image data that does not decode is answered
\* 503 when the classifier or the face detector is not loaded and 400
\* otherwise.
C15_UndecodableImageStatus ==
    (last.op = "detect_mood" /\ ~last.decodable)
        => last.status = (IF mood_model /\ face_cascade THEN 400 ELSE 503)

\* C15 (witness): data that does not decode was refused with 400 by a
\* service with both models
C15_Witness ==
    /\ last.op = "detect_mood"
    /\ ~last.decodable
    /\ last.status = 400
    /\ last.detail = InvalidImageDetail
    /\ mood_model
    /\ face_cascade

\* C16: POST /upload-image without a file is answered 422 in every state of
\* the service, and detect_mood_from_image is not called.
C16_NoFileIs422 ==
    (last.op = "upload_image" /\ ~last.attached)
        => /\ last.status = 422
           /\ ~last.detected

\* C16 (witness): a request without a file got 422 from a service with both
\* models
C16_Witness ==
    /\ last.op = "upload_image"
    /\ ~last.attached
    /\ last.status = 422
    /\ mood_model
    /\ face_cascade

----------------------------------------------------------------------------
(* Claims about degraded responses and the cache *)

\* the mandatory steps of the last POST /mood-and-playlist succeeded
MandatoryStepsDone ==
    /\ last.op = "mood_and_playlist"
    /\ mood_model
    /\ face_cascade
    /\ spotify_client
    /\ last.decodable
    /\ last.det.detector = "faces"
    /\ last.det.classifier = "ok"

C14_ResultIndependentOfCache ==
    (FoundTracks /\ ~last.authenticated) => last.url = NoUrl

\* C14 (amended): a playlist request in unauthenticated mode leaves the
\* cache as it is, and returns no URL unless the mood is a key of the cache
C14_CacheReadNotWritten ==
    [][ (last'.op \in PlaylistOps /\ ~last'.authenticated)
           => /\ created_playlists' = created_playlists
              /\ ( /\ last'.status = 200
                   /\ last'.tracks # <<>>
                   /\ last'.mood \notin DOMAIN created_playlists )
                 => last'.url = NoUrl
      ]_vars

\* C14 (witness): a request in unauthenticated mode was answered with the
\* URL the cache holds for its mood
C14_Witness ==
    /\ FoundTracks
    /\ ~last.authenticated
    /\ last.hit
    /\ last.mood \in DOMAIN created_playlists
    /\ last.url = created_playlists[last.mood]
    /\ last.url.kind = "playlist"

\* the name of the playlist created for each mood
PlaylistNames == [m \in PlaylistMoods |-> playlist_name(m)]

\* every URL of the cache is the URL of a playlist of the account created
\* for its mood
CacheHoldsCreated ==
    \A m \in DOMAIN created_playlists :
        \E i \in DOMAIN account :
            /\ created_playlists[m] = PlaylistUrl(account[i].id)
            /\ account[i].id[1] = "p"
            /\ account[i].name = PlaylistNames[m]

\* C18: a playlist request that returns no URL leaves the cache as it is; the
\* cache changes only by the entry of the request's mood, set to the URL
\* returned, after user_playlist_create and playlist_add_items succeeded;
\* and every URL of the cache is the URL of a playlist created for its mood.
C18_CacheWrittenAfterSuccess ==
    [][ /\ (last'.op \in PlaylistOps /\ last'.url = NoUrl)
           => created_playlists' = created_playlists
        /\ created_playlists' # created_playlists
           => /\ last'.op \in PlaylistOps
              /\ last'.url.kind = "playlist"
              /\ created_playlists' = StoreUrl(last'.mood, last'.url)
              /\ Len(account') = Len(account) + 1
              /\ last'.url = PlaylistUrl(account'[Len(account')].id)
        /\ CacheHoldsCreated'
      ]_vars

\* C18 (witness): playlist_add_items raised after the playlist was created,
\* no URL was returned and the mood is not cached
C18_Witness ==
    /\ FoundTracks
    /\ last.authenticated
    /\ \E i \in DOMAIN last.calls : last.calls[i] = "playlist_add_items"
    /\ last.url = NoUrl
    /\ last.mood \notin DOMAIN created_playlists
    /\ CreatedFor(last.mood) # {}

----------------------------------------------------------------------------
(* Claims about the connection list and the OAuth endpoints *)

\* the connections in manager.active_connections
Listed == { active_connections[i] : i \in DOMAIN active_connections }

\* the connections whose handler is running
HandlerRunning == { c \in Conns : pc[c] \notin {"none", "closed", "crashed"} }

\* C19: active_connections holds exactly the connections whose handler is
\* still running, each once.
C19_ListHoldsRunningHandlers ==
    /\ Listed = HandlerRunning
    /\ Len(active_connections) = Cardinality(Listed)

\* the part of C19 that holds: a connection is in the list at most once, the
\* connections of running handlers are in it, and so is a connection when
\* disconnect is called for it
C19_ListedOnceAndRunningListed ==
    /\ Len(active_connections) = Cardinality(Listed)
    /\ HandlerRunning \subseteq Listed
    /\ \A c \in Conns : pc[c] = "closed" => c \notin Listed

\* C20: without the OAuth configuration GET /spotify-auth-url and POST
\* /spotify-token answer 503.
C20_OAuthMissingIs503 ==
    (last.op \in {"spotify_auth_url", "spotify_token"} /\ ~spotify_oauth)
        => last.status = 503

\* the part of C20 that holds: POST /spotify-token answers 503 without the
\* OAuth configuration
C20_TokenEndpointIs503 ==
    (last.op = "spotify_token" /\ ~spotify_oauth) => last.status = 503

----------------------------------------------------------------------------
(* Claims about concurrent playlist requests *)

\* request r has passed the cache check for a mood that was not cached and
\* has not stored a URL
InWindow(r) == task[r].pc \in {"auth", "create", "add", "store"}

\* request r is inside its handler
InHandler(r) == task[r].pc \in {"auth", "create", "add", "store", "respond"}

\* C17 (as stated): the stretch between the cache check and the store is a
\* race window: while one request is in it, another request for the same
\* mood that has arrived can pass the cache check
C17_RaceWindowOpen ==
    \A r, q \in Reqs :
        ( /\ r # q
          /\ InWindow(r)
          /\ task[q].pc = "pending"
          /\ task[q].mood = task[r].mood )
            => ENABLED CheckCache(q)

\* C17 (amended): the event loop runs a playlist request from its cache
\* check to its return before it starts another, so no two requests are
\* inside the handler at once and none passes the cache check while another
\* is between its cache check and its store
C17_RequestsSerialized ==
    \A r, q \in Reqs :
        r # q => /\ ~(InHandler(r) /\ InHandler(q))
                 /\ InHandler(r) => running = r

\* C17 (witness): a request has created its playlist and not stored the URL
\* while another request for the same mood has arrived
C17_Witness ==
    \E r, q \in Reqs :
        /\ r # q
        /\ task[r].pc = "add"
        /\ task[q].pc = "pending"
        /\ task[q].mood = task[r].mood

====
